---- MODULE Spec2Model ----
(***************************************************************************)
(* Model of src/dedup_store.py: DeduplicationStore, a two-tier membership  *)
(* store.  An in-memory set (_processed_cache) sits over an SQLite table   *)
(* processed_events(topic, event_id, processed_at) with PRIMARY KEY        *)
(* (topic, event_id).  One connection and ONE cursor are shared by every   *)
(* thread (check_same_thread=False), with no lock in the class.            *)
(*                                                                         *)
(* Atomic steps.  A thread switch can happen between any two method calls  *)
(* on the shared objects, so each of set.add / `in`, cursor.execute,       *)
(* cursor.fetchone and conn.commit is one step of the thread that makes    *)
(* it.  A step on the SQLite handle either succeeds or raises (closed      *)
(* connection: sqlite3.ProgrammingError; storage fault:                    *)
(* sqlite3.OperationalError).                                              *)
(*                                                                         *)
(* A key (topic, event_id) is an element of Keys.  processed_at is the     *)
(* value of the database clock (CURRENT_TIMESTAMP, one-second resolution)  *)
(* at the time of the INSERT; the clock moves by Tick, so two inserts may  *)
(* carry the same processed_at.                                            *)
(***************************************************************************)
EXTENDS Integers, Sequences, FiniteSets, TLC

\* ------------------------------------------------------------------ bounds
NumKeys == 2
NumThreads == 2
MaxClock == 1
MaxGen == 1

\* CACHE_SIZE (100000 in the source) scaled so that NumKeys > CACHE_SIZE.
CACHE_SIZE == 1

Keys == 1..NumKeys
Threads == 1..NumThreads

VARIABLES
    ledger,     \* rows of processed_events committed on disk: [key, at]
    pending,    \* rows written in the connection's open transaction, not yet committed
    cache,      \* self._processed_cache
    conn,       \* self.conn: "open", "closed" (after close()), "down" (no instance),
                \* "leaked" (no instance; a failed __init__ left its connection open)
    cursor,     \* rows the shared self.cursor still holds from its last execute (0 or 1)
    clock,      \* CURRENT_TIMESTAMP
    gen,        \* number of instances constructed after the first one
    warmed,     \* the warm-up query of this instance's _load_cache did not raise
    pc,         \* per thread: position inside is_processed / mark_processed
    call,       \* per thread: the call in flight (NoCall when the thread is idle)
    last,       \* the call that returned in the step just taken, with what its caller got
                \* (NoCall after a step in which no call returned)
    acked,      \* keys whose mark_processed returned without a write error, this instance
    firstAt,    \* key -> processed_at committed when a mark_processed first returned durably
    seenTrue,   \* keys for which some is_processed has returned True
    everMarked, \* keys for which mark_processed has ever been called
    markSeq     \* keys in the order in which their rows were inserted

vars == <<ledger, pending, cache, conn, cursor, clock, gen, warmed, pc, call, last,
          acked, firstAt, seenTrue, everMarked, markSeq>>

NoAt == -1
NoCall == [op |-> "none"]

Row(k, at) == [key |-> k, at |-> at]
RowsOf(rows, k) == {r \in rows : r.key = k}
KeysOf(rows) == {r.key : r \in rows}

\* What a statement on the connection sees: committed rows overridden by the
\* rows of its own open transaction.
Commit(led, pen) == {r \in led : r.key \notin KeysOf(pen)} \cup pen
Visible == Commit(ledger, pending)

\* INSERT OR IGNORE INTO processed_events (topic, event_id) VALUES (?, ?)
\* under PRIMARY KEY (topic, event_id): the new pending rows.
InsertNoPrimaryKey(led, pen, k, at) == pen \cup {Row(k, at)}
InsertOrReplace(led, pen, k, at) == {r \in pen : r.key # k} \cup {Row(k, at)}
InsertOrIgnore(led, pen, k, at) ==
    IF k \in KeysOf(Commit(led, pen)) THEN pen ELSE pen \cup {Row(k, at)}

\* SELECT 1 FROM processed_events WHERE topic = ? AND event_id = ?
\* the number of rows the cursor holds after the execute.
SelectOne(rows, k) == IF RowsOf(rows, k) # {} THEN 1 ELSE 0

\* self._processed_cache.add(key) in mark_processed
MarkSkipsCache(c, k) == c
MarkCacheAddEvicting(c, k) == IF Cardinality(c) >= CACHE_SIZE THEN {k} ELSE c \cup {k}
MarkCacheAdd(c, k) == c \cup {k}

\* self._processed_cache.add(key) in is_processed (promotion)
Promote(c, k) == c \cup {k}

\* SELECT topic, event_id ... ORDER BY processed_at DESC LIMIT CACHE_SIZE:
\* the sets of keys the query can return; rows of equal processed_at come in
\* an order the engine chooses.
Min(a, b) == IF a < b THEN a ELSE b
RecentKeys(led, limit) ==
    {S \in SUBSET KeysOf(led) :
        /\ Cardinality(S) = Min(limit, Cardinality(KeysOf(led)))
        /\ \A r \in led : \A q \in led :
              (r.key \in S /\ q.key \notin S) => r.at >= q.at}

\* markSeq without the keys whose rows were lost with the open transaction
RECURSIVE Keep(_, _)
Keep(s, K) ==
    IF s = <<>> THEN <<>>
    ELSE IF Head(s) \in K THEN <<Head(s)>> \o Keep(Tail(s), K)
    ELSE Keep(Tail(s), K)

Durable == {k \in Keys : firstAt[k] # NoAt}

\* the call record a thread carries from the start of a call: what held of
\* its key when the call began
NewCall(op, k) ==
    [op |-> op, key |-> k, lost |-> FALSE, lookups |-> 0,
     wasInCache |-> op = "is" /\ k \in cache,
     wasAcked |-> op = "is" /\ k \in acked,
     wasSeen |-> op = "is" /\ k \in seenTrue,
     wasInLedger |-> op = "is" /\ k \in KeysOf(ledger),
     wasDurable |-> k \in Durable]

\* what the caller of a finished call got: ret is the value returned ("True",
\* "False", "None") or "raised"; werr says that a Ledger write of the call raised;
\* lookups counts the SELECTs the call issued on the connection
Returned(c, ret, werr) ==
    [op |-> c.op, key |-> c.key, ret |-> ret, werr |-> werr, lost |-> c.lost,
     lookups |-> c.lookups, wasInCache |-> c.wasInCache,
     wasAcked |-> c.wasAcked, wasSeen |-> c.wasSeen,
     wasInLedger |-> c.wasInLedger, wasDurable |-> c.wasDurable]

Init ==
    /\ ledger = {}
    /\ pending = {}
    /\ cache = {}
    /\ conn = "open"
    /\ cursor = 0
    /\ clock = 0
    /\ gen = 0
    /\ warmed = TRUE
    /\ pc = [t \in Threads |-> "idle"]
    /\ call = [t \in Threads |-> NoCall]
    /\ last = NoCall
    /\ acked = {}
    /\ firstAt = [k \in Keys |-> NoAt]
    /\ seenTrue = {}
    /\ everMarked = {}
    /\ markSeq = <<>>

\* ------------------------------------------------------------ is_processed
\* (a variant that queries the Ledger although the Cache holds the key)
IsProcessedHitQueriesLedger(t, k) ==
    /\ pc[t] = "idle" /\ conn \in {"open", "closed"}
    /\ k \in cache
    /\ call' = [call EXCEPT ![t] = NewCall("is", k)]
    /\ pc' = [pc EXCEPT ![t] = "ip_exec"]
    /\ last' = NoCall
    /\ UNCHANGED <<ledger, pending, cache, conn, cursor, clock, gen, warmed,
                   acked, firstAt, seenTrue, everMarked, markSeq>>

\* `if key in self._processed_cache: return True`
IsProcessedHit(t, k) ==
    /\ pc[t] = "idle" /\ conn \in {"open", "closed"}
    /\ k \in cache
    /\ last' = Returned(NewCall("is", k), "True", FALSE)
    /\ seenTrue' = seenTrue \cup {k}
    /\ UNCHANGED <<ledger, pending, cache, conn, cursor, clock, gen, warmed, pc, call,
                   acked, firstAt, everMarked, markSeq>>

\* cache miss: go on to the disk check
IsProcessedMiss(t, k) ==
    /\ pc[t] = "idle" /\ conn \in {"open", "closed"}
    /\ k \notin cache
    /\ call' = [call EXCEPT ![t] = NewCall("is", k)]
    /\ pc' = [pc EXCEPT ![t] = "ip_exec"]
    /\ last' = NoCall
    /\ UNCHANGED <<ledger, pending, cache, conn, cursor, clock, gen, warmed,
                   acked, firstAt, seenTrue, everMarked, markSeq>>

\* self.cursor.execute("SELECT 1 ...", (topic, event_id))
IsProcessedExec(t) ==
    /\ pc[t] = "ip_exec" /\ conn = "open"
    /\ cursor' = SelectOne(Visible, call[t].key)
    /\ call' = [call EXCEPT ![t].lookups = 1]
    /\ pc' = [pc EXCEPT ![t] = "ip_fetch"]
    /\ last' = NoCall
    /\ UNCHANGED <<ledger, pending, cache, conn, clock, gen, warmed,
                   acked, firstAt, seenTrue, everMarked, markSeq>>

\* the execute raises; is_processed has no try/except, the caller gets the exception
IsProcessedExecRaise(t) ==
    /\ pc[t] = "ip_exec" /\ conn \in {"open", "closed"}
    /\ cursor' = IF conn = "open" THEN 0 ELSE cursor
    /\ last' = Returned([call[t] EXCEPT !.lookups = 1], "raised", FALSE)
    /\ call' = [call EXCEPT ![t] = NoCall]
    /\ pc' = [pc EXCEPT ![t] = "idle"]
    /\ UNCHANGED <<ledger, pending, cache, conn, clock, gen, warmed,
                   acked, firstAt, seenTrue, everMarked, markSeq>>

\* .fetchone() on the shared cursor, then `if res is not None: add; return True`
\* else `return False`
IsProcessedFetch(t) ==
    /\ pc[t] = "ip_fetch" /\ conn = "open"
    /\ IF cursor > 0
       THEN /\ cursor' = cursor - 1
            /\ cache' = Promote(cache, call[t].key)
            /\ last' = Returned(call[t], "True", FALSE)
            /\ seenTrue' = seenTrue \cup {call[t].key}
       ELSE /\ last' = Returned(call[t], "False", FALSE)
            /\ UNCHANGED <<cursor, cache, seenTrue>>
    /\ call' = [call EXCEPT ![t] = NoCall]
    /\ pc' = [pc EXCEPT ![t] = "idle"]
    /\ UNCHANGED <<ledger, pending, conn, clock, gen, warmed,
                   acked, firstAt, everMarked, markSeq>>

\* fetchone() after close(): ProgrammingError, uncaught
IsProcessedFetchRaise(t) ==
    /\ pc[t] = "ip_fetch" /\ conn = "closed"
    /\ last' = Returned(call[t], "raised", FALSE)
    /\ call' = [call EXCEPT ![t] = NoCall]
    /\ pc' = [pc EXCEPT ![t] = "idle"]
    /\ UNCHANGED <<ledger, pending, cache, conn, cursor, clock, gen, warmed,
                   acked, firstAt, seenTrue, everMarked, markSeq>>

\* ---------------------------------------------------------- mark_processed
\* `self._processed_cache.add(key)`
MarkProcessedCall(t, k) ==
    /\ pc[t] = "idle" /\ conn \in {"open", "closed"}
    /\ cache' = MarkCacheAdd(cache, k)
    /\ call' = [call EXCEPT ![t] = NewCall("mark", k)]
    /\ everMarked' = everMarked \cup {k}
    /\ pc' = [pc EXCEPT ![t] = "mp_exec"]
    /\ last' = NoCall
    /\ UNCHANGED <<ledger, pending, conn, cursor, clock, gen, warmed,
                   acked, firstAt, seenTrue, markSeq>>

\* self.cursor.execute("INSERT OR IGNORE ...")
MarkProcessedExec(t) ==
    /\ pc[t] = "mp_exec" /\ conn = "open"
    /\ pending' = InsertOrIgnore(ledger, pending, call[t].key, clock)
    /\ markSeq' = IF call[t].key \notin KeysOf(Visible)
                  THEN Append(markSeq, call[t].key) ELSE markSeq
    /\ cursor' = 0
    /\ pc' = [pc EXCEPT ![t] = "mp_commit"]
    /\ last' = NoCall
    /\ UNCHANGED <<ledger, cache, conn, clock, gen, warmed, call,
                   acked, firstAt, seenTrue, everMarked>>

\* (a variant whose except clause takes the key out of the cache again)
MarkProcessedExecFailRetracts(t) ==
    /\ pc[t] = "mp_exec" /\ conn \in {"open", "closed"}
    /\ cursor' = IF conn = "open" THEN 0 ELSE cursor
    /\ cache' = cache \ {call[t].key}
    /\ last' = Returned(call[t], "None", TRUE)
    /\ call' = [call EXCEPT ![t] = NoCall]
    /\ pc' = [pc EXCEPT ![t] = "idle"]
    /\ UNCHANGED <<ledger, pending, conn, clock, gen, warmed,
                   acked, firstAt, seenTrue, everMarked, markSeq>>

\* the execute raises; `except Exception` prints and the method returns None
MarkProcessedExecFail(t) ==
    /\ pc[t] = "mp_exec" /\ conn \in {"open", "closed"}
    /\ cursor' = IF conn = "open" THEN 0 ELSE cursor
    /\ last' = Returned(call[t], "None", TRUE)
    /\ call' = [call EXCEPT ![t] = NoCall]
    /\ pc' = [pc EXCEPT ![t] = "idle"]
    /\ UNCHANGED <<ledger, pending, cache, conn, clock, gen, warmed,
                   acked, firstAt, seenTrue, everMarked, markSeq>>

\* self.conn.commit(), then the method returns None
MarkProcessedCommit(t) ==
    /\ pc[t] = "mp_commit" /\ conn = "open"
    /\ ledger' = Commit(ledger, pending)
    /\ pending' = {}
    /\ last' = Returned(call[t], "None", FALSE)
    /\ acked' = acked \cup {call[t].key}
    /\ firstAt' = LET k == call[t].key IN
                  IF firstAt[k] = NoAt /\ RowsOf(ledger', k) # {}
                  THEN [firstAt EXCEPT ![k] = (CHOOSE r \in RowsOf(ledger', k) : TRUE).at]
                  ELSE firstAt
    /\ call' = [call EXCEPT ![t] = NoCall]
    /\ pc' = [pc EXCEPT ![t] = "idle"]
    /\ UNCHANGED <<cache, conn, cursor, clock, gen, warmed,
                   seenTrue, everMarked, markSeq>>

\* the commit raises: the open transaction stays open or is rolled back by
\* the engine (the writes of every thread in it are lost); `except Exception`
\* prints and the method returns None
MarkProcessedCommitFail(t) ==
    /\ pc[t] = "mp_commit" /\ conn \in {"open", "closed"}
    /\ \E rollback \in BOOLEAN :
          /\ pending' = IF rollback THEN {} ELSE pending
          /\ call' = [u \in Threads |->
                        IF u = t THEN NoCall
                        ELSE IF rollback /\ pc[u] = "mp_commit" /\ call[u].key \in KeysOf(pending)
                        THEN [call[u] EXCEPT !.lost = TRUE]
                        ELSE call[u]]
    /\ markSeq' = Keep(markSeq, KeysOf(Commit(ledger, pending')))
    /\ last' = Returned(call[t], "None", TRUE)
    /\ pc' = [pc EXCEPT ![t] = "idle"]
    /\ UNCHANGED <<ledger, cache, conn, cursor, clock, gen, warmed,
                   acked, firstAt, seenTrue, everMarked>>

\* ------------------------------------------------------------------- close
\* `if self.conn: self.conn.close()`: the open transaction is rolled back
Close ==
    /\ conn = "open"
    /\ conn' = "closed"
    /\ pending' = {}
    /\ markSeq' = Keep(markSeq, KeysOf(ledger))
    /\ last' = NoCall
    /\ UNCHANGED <<ledger, cache, cursor, clock, gen, warmed, pc, call,
                   acked, firstAt, seenTrue, everMarked>>

\* ------------------------------------------------------ crash and restart
\* The process dies: the instance, its cache and its open transaction are gone.
Crash ==
    /\ conn # "down"
    /\ gen < MaxGen
    /\ conn' = "down"
    /\ pending' = {}
    /\ markSeq' = Keep(markSeq, KeysOf(ledger))
    /\ cache' = {}
    /\ cursor' = 0
    /\ acked' = {}
    /\ pc' = [t \in Threads |-> "idle"]
    /\ call' = [t \in Threads |-> NoCall]
    /\ last' = NoCall
    /\ UNCHANGED <<ledger, clock, gen, warmed, firstAt, seenTrue, everMarked>>

\* __init__ / _initialize_db / _load_cache on the same db_path
Construct ==
    /\ conn \in {"down", "leaked"}
    /\ conn' = "open"
    /\ gen' = gen + 1
    /\ \E S \in RecentKeys(ledger, CACHE_SIZE) : cache' = S
    /\ warmed' = TRUE
    /\ last' = NoCall
    /\ UNCHANGED <<ledger, pending, cursor, clock, pc, call,
                   acked, firstAt, seenTrue, everMarked, markSeq>>

\* the warm-up query raises inside _load_cache: printed, the cache stays set()
ConstructWarmFail ==
    /\ conn \in {"down", "leaked"}
    /\ conn' = "open"
    /\ gen' = gen + 1
    /\ cache' = {}
    /\ warmed' = FALSE
    /\ last' = NoCall
    /\ UNCHANGED <<ledger, pending, cursor, clock, pc, call,
                   acked, firstAt, seenTrue, everMarked, markSeq>>

\* what the caller of a failed DeduplicationStore(db_path) gets: the exception
InitRaised == [op |-> "init", failed |-> TRUE, ret |-> "raised"]
InitSwallowed == [op |-> "init", failed |-> TRUE, ret |-> "None"]

\* sqlite3.connect raises in _initialize_db: the exception leaves __init__,
\* no instance exists and _load_cache is not reached
ConstructConnectFail ==
    /\ conn \in {"down", "leaked"}
    /\ conn' = "down"
    /\ warmed' = FALSE
    /\ last' = InitRaised
    /\ UNCHANGED <<ledger, pending, cache, cursor, clock, gen, pc, call,
                   acked, firstAt, seenTrue, everMarked, markSeq>>

\* (a variant that swallows the error, as _load_cache does)
ConstructSchemaFailSwallowed ==
    /\ conn \in {"down", "leaked"}
    /\ conn' = "open"
    /\ warmed' = FALSE
    /\ last' = InitSwallowed
    /\ UNCHANGED <<ledger, pending, cache, cursor, clock, gen, pc, call,
                   acked, firstAt, seenTrue, everMarked, markSeq>>

\* CREATE TABLE IF NOT EXISTS or its commit raises after the connection was
\* opened: the exception leaves __init__ with no try/finally around it, so
\* the connection is still open when the caller gets the exception
ConstructSchemaFail ==
    /\ conn \in {"down", "leaked"}
    /\ conn' = "leaked"
    /\ warmed' = FALSE
    /\ last' = InitRaised
    /\ UNCHANGED <<ledger, pending, cache, cursor, clock, gen, pc, call,
                   acked, firstAt, seenTrue, everMarked, markSeq>>

\* CURRENT_TIMESTAMP moves on
Tick ==
    /\ clock < MaxClock
    /\ clock' = clock + 1
    /\ last' = NoCall
    /\ UNCHANGED <<ledger, pending, cache, conn, cursor, gen, warmed, pc, call,
                   acked, firstAt, seenTrue, everMarked, markSeq>>

Next ==
    \/ \E t \in Threads, k \in Keys : IsProcessedHit(t, k)
    \/ \E t \in Threads, k \in Keys : IsProcessedMiss(t, k)
    \/ \E t \in Threads : IsProcessedExec(t)
    \/ \E t \in Threads : IsProcessedExecRaise(t)
    \/ \E t \in Threads : IsProcessedFetch(t)
    \/ \E t \in Threads : IsProcessedFetchRaise(t)
    \/ \E t \in Threads, k \in Keys : MarkProcessedCall(t, k)
    \/ \E t \in Threads : MarkProcessedExec(t)
    \/ \E t \in Threads : MarkProcessedExecFail(t)
    \/ \E t \in Threads : MarkProcessedCommit(t)
    \/ \E t \in Threads : MarkProcessedCommitFail(t)
    \/ Close
    \/ Crash
    \/ Construct
    \/ ConstructWarmFail
    \/ ConstructConnectFail
    \/ ConstructSchemaFail
    \/ Tick

Spec == Init /\ [][Next]_vars

\* ===================================================================== claims

\* C1: whatever the interleaving of concurrent mark_processed calls, the Ledger
\* never holds two rows for one key, no mark_processed call raises to its
\* caller, and when a call returns whose Ledger write was hit by no storage
\* fault (its execute and commit did not raise, its transaction was not rolled
\* back) the Ledger holds exactly one committed row for its key.
C1_Uniqueness ==
    /\ \A k \in Keys : Cardinality(RowsOf(ledger, k)) <= 1
    /\ \A k \in Keys : Cardinality(RowsOf(ledger \cup pending, k)) <= 1
    /\ last.op = "mark" => last.ret = "None"
    /\ (last.op = "mark" /\ ~last.werr /\ ~last.lost)
          => Cardinality(RowsOf(ledger, last.key)) = 1

\* a mark_processed returns while another thread's mark_processed of the same
\* key is between its INSERT and its commit
C1_Witness ==
    /\ last.op = "mark" /\ ~last.werr
    /\ \E t \in Threads : pc[t] = "mp_commit" /\ call[t].key = last.key
    /\ Cardinality(RowsOf(ledger, last.key)) = 1

\* C2: an is_processed call that starts after a mark_processed of the same key
\* has returned without a write error on this instance returns True, whatever
\* the other threads do and whether or not the connection has been closed.
C2_CacheCoherence ==
    (last.op = "is" /\ last.wasAcked) => last.ret = "True"

\* is_processed answers True for an acknowledged key after close()
C2_Witness ==
    /\ last.op = "is" /\ last.wasAcked /\ last.ret = "True"
    /\ conn = "closed"

\* C3 (as claimed): on an instance constructed after a crash, is_processed of a
\* key whose mark_processed had returned with its row committed returns True
\* (stated for the calls whose Ledger read did not raise).
C3_PersistsAcrossRestart ==
    (last.op = "is" /\ last.wasDurable /\ gen > 0 /\ last.ret # "raised")
        => last.ret = "True"

\* C4: once a mark_processed of a key has returned with its row committed, the
\* Ledger holds exactly that row, with the processed_at first recorded, for
\* ever; a further mark_processed of the key leaves the key in the Cache (so
\* is_processed returns True) and changes neither the row nor its processed_at.
C4_Idempotence ==
    /\ \A k \in Durable : RowsOf(ledger, k) = {Row(k, firstAt[k])}
    /\ (last.op = "mark" /\ last.wasDurable)
          => /\ last.key \in cache
             /\ RowsOf(Visible, last.key) = {Row(last.key, firstAt[last.key])}

\* a second mark_processed of a key returns without error at a later
\* timestamp than the one recorded by the first
C4_Witness ==
    /\ last.op = "mark" /\ last.wasDurable /\ ~last.werr
    /\ clock > firstAt[last.key]

\* C5 (as claimed): an is_processed of a key for which an earlier is_processed
\* returned True returns True, across failures, close, crash and restart
\* (stated for the calls whose Ledger read did not raise).
C5_AbsentToPresentOnly ==
    (last.op = "is" /\ last.wasSeen /\ last.ret # "raised") => last.ret = "True"

\* C6 (as claimed): a mark_processed whose Ledger write raised does not hand
\* its caller the outcome of a successful call (a plain return of None).
C6_WriteFailureSurfaced ==
    (last.op = "mark" /\ last.werr) => last.ret # "None"

\* C7 (as claimed): is_processed of a key whose row is committed in the Ledger
\* returns True and leaves the key in the Cache (stated for the calls whose
\* Ledger read did not raise; a call that finds the key in the Cache does so
\* trivially).
C7_Promotion ==
    (last.op = "is" /\ last.wasInLedger /\ last.ret # "raised")
        => (last.ret = "True" /\ last.key \in cache)

\* C8 (as claimed): is_processed of a key that was never marked (so is in
\* neither tier) does not return True and leaves the key out of both tiers.
C8_UnknownKey ==
    (last.op = "is" /\ last.key \notin everMarked)
        => /\ last.ret # "True"
           /\ last.key \notin cache
           /\ last.key \notin KeysOf(ledger \cup pending)

\* the CACHE_SIZE keys marked last
LastMarked == {markSeq[i] : i \in (Len(markSeq) - CACHE_SIZE + 1)..Len(markSeq)}

\* C9 (as claimed): when more than CACHE_SIZE keys have been marked, a
\* construction whose warm-up query succeeds leaves in the Cache exactly the
\* CACHE_SIZE keys marked last.
C9_WarmUpLoadsMostRecent ==
    [][(conn = "down" /\ conn' = "open" /\ warmed' /\ Len(markSeq) > CACHE_SIZE)
          => cache' = LastMarked]_vars

\* C10 (as claimed): no call of is_processed or mark_processed ends with an
\* exception raised to its caller.
C10_NothingRaised ==
    last.op \in {"is", "mark"} => last.ret # "raised"

\* C11 (as claimed): whenever no mark_processed call is in flight, every key
\* of the Cache has a committed row in the Ledger.
C11_CacheImpliesLedger ==
    (\A t \in Threads : pc[t] \notin {"mp_exec", "mp_commit"})
        => cache \subseteq KeysOf(ledger)

\* C12 (as claimed): whatever the other threads do on the shared connection
\* and cursor between its execute and its fetchone, an is_processed of a key
\* whose row was committed when the call began does not answer False.
C12_LookupSafeUnderConcurrency ==
    (last.op = "is" /\ last.wasInLedger) => last.ret # "False"

C14_CacheHitFastPath ==
    [][(last'.op = "is" /\ last'.wasInCache)
          => /\ last'.ret = "True"
             /\ last'.lookups = 0
             /\ ledger' = ledger /\ pending' = pending
             /\ cursor' = cursor /\ cache' = cache]_vars

\* a cache hit answered True on a closed connection while another thread is
\* inside the Ledger write of a mark_processed
C14_Witness ==
    /\ last.op = "is" /\ last.wasInCache /\ last.ret = "True"
    /\ conn = "closed"
    /\ \E t \in Threads : pc[t] = "mp_commit"

\* C15: when the store cannot be opened or the schema cannot be ensured, the
\* constructor raises to its caller, no warm-up has run, and no instance
\* exists: the Cache is empty and no thread is inside a call of the store.
C15_InitFailureIsFatal ==
    /\ (last.op = "init" /\ last.failed)
          => (last.ret = "raised" /\ conn \in {"down", "leaked"} /\ ~warmed)
    /\ conn \in {"down", "leaked"}
          => (cache = {} /\ \A t \in Threads : pc[t] = "idle")

\* a construction on a storage location that already holds rows has failed
C15_Witness ==
    /\ last.op = "init" /\ last.failed /\ last.ret = "raised"
    /\ ledger # {}

\* C16 (as claimed): when a construction has failed, no connection opened by
\* it is still open.
C16_ConnectionReleased ==
    (last.op = "init" /\ last.failed) => conn # "leaked"

\* C17: while an instance lives (from the end of its construction to a crash)
\* no step takes a key out of the Cache.
C17_CacheOnlyGrows ==
    [][(conn \in {"open", "closed"} /\ conn' \in {"open", "closed"})
          => cache \subseteq cache']_vars

\* after a restart the Cache of the instance holds more than CACHE_SIZE keys
C17_Witness ==
    /\ gen > 0 /\ conn \in {"open", "closed"}
    /\ Cardinality(cache) > CACHE_SIZE

\* C18 (as claimed): on an instance whose warm-up query failed, is_processed
\* of a key whose row is committed in the Ledger returns True (stated for the
\* calls whose Ledger read did not raise).
C18_WarmUpFailureSwallowed ==
    (~warmed /\ conn \in {"open", "closed"} /\ last.op = "is"
        /\ last.wasInLedger /\ last.ret # "raised")
        => last.ret = "True"

TypeOK ==
    /\ \A r \in ledger \cup pending : r.key \in Keys /\ r.at \in 0..MaxClock
    /\ cache \subseteq Keys
    /\ acked \subseteq Keys
    /\ conn \in {"open", "closed", "down", "leaked"}
    /\ cursor \in {0, 1}
    /\ clock \in 0..MaxClock
    /\ gen \in 0..MaxGen
    /\ warmed \in BOOLEAN
    /\ \A t \in Threads : pc[t] \in {"idle", "ip_exec", "ip_fetch", "mp_exec", "mp_commit"}
====
